---------------------------- MODULE Spec2Model ----------------------------
(***************************************************************************)
(* A model of the tppgUtil widget helpers: the colour conversion and       *)
(* theming functions of txtPassUtil.js and the AppRec record wrapper.      *)
(*                                                                         *)
(* JavaScript numbers are modelled as exact rationals <<n, d>> in lowest   *)
(* terms with d > 0, and NaN as <<0, 0>>.  A double computation differs    *)
(* from the exact one only where Math.round meets an exact half: there the *)
(* model rounds up, as Math.round does on the exact value, while the       *)
(* rounding error of the doubles can leave the value just below the half.  *)
(* No property stated below rests on the direction of such a tie.          *)
(* JavaScript strings are modelled as sequences of one-character strings.  *)
(***************************************************************************)
EXTENDS Integers, Sequences, FiniteSets, TLC

VARIABLES
    op,       \* name of the function the caller calls ("none": no call yet)
    arg,      \* arguments of that call
    called,   \* whether the call has been made
    ret,      \* completion of the call: [ok |-> BOOLEAN, val |-> ...]
    prev,     \* the hexToHsl argument whose returned triple was passed on
    again,    \* changetheme: the call before this one had the same argument
    style,    \* document.documentElement.style custom properties
    form,     \* AppRec: this.form ("" when the instance was built without one)
    records,  \* AppRec: this.records
    pc,       \* AppRec: the platform call the running method awaits, or "idle"
    cursor,   \* AppRec.read: local variable cursor
    config,   \* AppRec: local variable config of the running method
    page,     \* AppRec.read: number of getRecords calls issued by this call
    failed,   \* AppRec.read: whether a getRecords call of this call failed
    stale,    \* AppRec.read: this.records was not empty when this call began
    fetched,  \* AppRec: the platform calls of this method call and their answers
    outcome   \* AppRec: completion of the last method call

vars == <<op, arg, called, ret, prev, again, style, form, records, pc, cursor,
          config, page, failed, stale, fetched, outcome>>

colorVars == <<op, arg, called, ret, prev, again>>
recVars == <<form, records, pc, cursor, config, page, failed, stale, fetched,
            outcome>>

-----------------------------------------------------------------------------
(* Numbers *)

RECURSIVE GCD(_, _)
GCD(a, b) == IF b = 0 THEN a ELSE GCD(b, a % b)

AbsInt(a) == IF a < 0 THEN -a ELSE a

NaN == <<0, 0>>

IsNaN(a) == a[2] = 0

\* the rational n/d (d # 0) in lowest terms with a positive denominator
Norm(n, d) ==
    LET g == GCD(AbsInt(n), AbsInt(d))
        sg == IF d < 0 THEN -1 ELSE 1
    IN  <<sg * (n \div g), sg * (d \div g)>>

Q(n) == <<n, 1>>

Add(a, b) ==
    IF IsNaN(a) \/ IsNaN(b) THEN NaN
    ELSE LET g == GCD(a[2], b[2])
         IN  Norm(a[1] * (b[2] \div g) + b[1] * (a[2] \div g),
                  (a[2] \div g) * b[2])

Neg(a) == IF IsNaN(a) THEN NaN ELSE <<-a[1], a[2]>>

Sub(a, b) == Add(a, Neg(b))

Mul(a, b) ==
    IF IsNaN(a) \/ IsNaN(b) THEN NaN
    ELSE LET x == Norm(a[1], b[2])
             y == Norm(b[1], a[2])
         IN  Norm(x[1] * y[1], x[2] * y[2])

\* a / b for b # 0 (no division of the modelled code has a zero divisor)
Div(a, b) ==
    IF IsNaN(a) \/ IsNaN(b) THEN NaN
    ELSE Mul(a, Norm(b[2], b[1]))

Lt(a, b) == ~IsNaN(a) /\ ~IsNaN(b) /\ a[1] * b[2] < b[1] * a[2]

Le(a, b) == ~IsNaN(a) /\ ~IsNaN(b) /\ a[1] * b[2] <= b[1] * a[2]

\* the === of two numbers
StrictEq(a, b) == ~IsNaN(a) /\ ~IsNaN(b) /\ a = b

MathAbs(a) == IF IsNaN(a) THEN NaN ELSE <<AbsInt(a[1]), a[2]>>

MathMax(a, b) ==
    IF IsNaN(a) \/ IsNaN(b) THEN NaN ELSE IF Lt(a, b) THEN b ELSE a

MathMin(a, b) ==
    IF IsNaN(a) \/ IsNaN(b) THEN NaN ELSE IF Lt(b, a) THEN b ELSE a

\* floor of n/d for d > 0
FloorDiv(n, d) == n \div d

\* Math.floor in the place of Math.round
MathRound_floor(a) ==
    IF IsNaN(a) THEN NaN ELSE Q(FloorDiv(a[1], a[2]))

\* Math.round: the nearest integer, halves rounded up
MathRound(a) ==
    IF IsNaN(a) THEN NaN ELSE Q(FloorDiv(2 * a[1] + a[2], 2 * a[2]))

\* the integer part of n/d, rounded towards zero
Trunc(a) == IF a[1] >= 0 THEN a[1] \div a[2] ELSE -((-a[1]) \div a[2])

\* the % of two numbers: the remainder has the sign of the dividend
Rem(a, b) ==
    IF IsNaN(a) \/ IsNaN(b) THEN NaN
    ELSE Sub(a, Mul(b, Q(Trunc(Div(a, b)))))

-----------------------------------------------------------------------------
(* Strings *)

HexDigits == <<"0", "1", "2", "3", "4", "5", "6", "7",
               "8", "9", "a", "b", "c", "d", "e", "f">>

UpperDigits == <<"0", "1", "2", "3", "4", "5", "6", "7",
                 "8", "9", "A", "B", "C", "D", "E", "F">>

\* the value of a hexadecimal digit of either case, -1 for any other character
DigitVal(c) ==
    IF \E i \in 1..16 : HexDigits[i] = c
    THEN (CHOOSE i \in 1..16 : HexDigits[i] = c) - 1
    ELSE IF \E i \in 1..16 : UpperDigits[i] = c
    THEN (CHOOSE i \in 1..16 : UpperDigits[i] = c) - 1
    ELSE -1

\* String.prototype.toUpperCase on one character
UpperChar(c) ==
    IF \E i \in 11..16 : HexDigits[i] = c
    THEN UpperDigits[CHOOSE i \in 11..16 : HexDigits[i] = c]
    ELSE c

toUpperCase(str) == [i \in 1..Len(str) |-> UpperChar(str[i])]

\* String.prototype.slice(1)
Slice1(str) == IF Len(str) = 0 THEN <<>> ELSE Tail(str)

\* parseInt(str, 16) on a string without sign, blank or x characters: the
\* value of the longest prefix of hexadecimal digits, NaN when it is empty
RECURSIVE ParsePrefix(_, _, _)
ParsePrefix(str, i, acc) ==
    IF i > Len(str) \/ DigitVal(str[i]) < 0 THEN acc
    ELSE ParsePrefix(str, i + 1, 16 * acc + DigitVal(str[i]))

parseInt16(str) ==
    IF Len(str) = 0 \/ DigitVal(str[1]) < 0 THEN NaN
    ELSE Q(ParsePrefix(str, 1, 0))

\* Number.prototype.toString(16) of an integer or NaN
RECURSIVE NatToString16(_)
NatToString16(n) ==
    IF n < 16 THEN <<HexDigits[n + 1]>>
    ELSE Append(NatToString16(n \div 16), HexDigits[(n % 16) + 1])

toString16(a) ==
    IF IsNaN(a) THEN <<"N", "a", "N">>
    ELSE IF a[1] < 0 THEN <<"-">> \o NatToString16(-a[1])
    ELSE NatToString16(a[1])

\* x << k on the 32-bit integer value of x
Shl(a, k) ==
    IF IsNaN(a) THEN Q(0)
    ELSE LET w == 2 ^ (32 - k)
             y == a[1] % w
         IN  Q((IF y >= w \div 2 THEN y - w ELSE y) * (2 ^ k))

-----------------------------------------------------------------------------
(* txtPassUtil.js *)

Throw(msg) == [ok |-> FALSE, val |-> msg]
Return(v) == [ok |-> TRUE, val |-> v]

\* hex.replace(/#/g, ''): every marker removed, not only a leading one
StripHash_all(hex) == SelectSeq(hex, LAMBDA ch : ch # "#")

\* hex.replace(/^#/, '')
StripHash(hex) ==
    IF Len(hex) > 0 /\ hex[1] = "#" THEN Tail(hex) ELSE hex

\* the r, g, b parsed by hexToHsl from a stripped string of length 3 or 6
ParseChannels(hex) ==
    IF Len(hex) = 3
    THEN [i \in 1..3 |-> parseInt16(<<hex[i], hex[i]>>)]
    ELSE [i \in 1..3 |-> parseInt16(SubSeq(hex, 2 * i - 1, 2 * i))]

\* the rest of hexToHsl, from r /= 255 on
RgbToHsl(r0, g0, b0) ==
    LET r == Div(r0, Q(255))
        g == Div(g0, Q(255))
        b == Div(b0, Q(255))
        max == MathMax(MathMax(r, g), b)
        min == MathMin(MathMin(r, g), b)
        l == Div(Add(max, min), Q(2))
    IN  IF StrictEq(max, min)
        THEN <<Q(0), Mul(Q(0), Q(100)), Mul(l, Q(100))>>
        ELSE LET d == Sub(max, min)
                 s == IF Lt(<<1, 2>>, l)
                      THEN Div(d, Sub(Sub(Q(2), max), min))
                      ELSE Div(d, Add(max, min))
                 h0 == IF StrictEq(max, r)
                       THEN Add(Div(Sub(g, b), d),
                                IF Lt(g, b) THEN Q(6) ELSE Q(0))
                       ELSE IF StrictEq(max, g)
                       THEN Add(Div(Sub(b, r), d), Q(2))
                       ELSE IF StrictEq(max, b)
                       THEN Add(Div(Sub(r, g), d), Q(4))
                       ELSE NaN
             IN  <<Mul(h0, Q(60)), Mul(s, Q(100)), Mul(l, Q(100))>>

hexToHsl(hex0) ==
    LET hex == StripHash(hex0)
    IN  IF Len(hex) = 3 \/ Len(hex) = 6
        THEN LET ch == ParseChannels(hex)
             IN  Return(RgbToHsl(ch[1], ch[2], ch[3]))
        ELSE Throw("Invalid HEX color.")

\* the sector dispatch with g and b exchanged in [180, 240)
Sector_swapped(h, c, x) ==
    IF Le(Q(0), h) /\ Lt(h, Q(60)) THEN <<c, x, Q(0)>>
    ELSE IF Le(Q(60), h) /\ Lt(h, Q(120)) THEN <<x, c, Q(0)>>
    ELSE IF Le(Q(120), h) /\ Lt(h, Q(180)) THEN <<Q(0), c, x>>
    ELSE IF Le(Q(180), h) /\ Lt(h, Q(240)) THEN <<Q(0), c, x>>
    ELSE IF Le(Q(240), h) /\ Lt(h, Q(300)) THEN <<x, Q(0), c>>
    ELSE IF Le(Q(300), h) /\ Lt(h, Q(360)) THEN <<c, Q(0), x>>
    ELSE <<Q(0), Q(0), Q(0)>>

\* the sector dispatch of hslToHex: <<r, g, b>> before the shift by m
Sector(h, c, x) ==
    IF Le(Q(0), h) /\ Lt(h, Q(60)) THEN <<c, x, Q(0)>>
    ELSE IF Le(Q(60), h) /\ Lt(h, Q(120)) THEN <<x, c, Q(0)>>
    ELSE IF Le(Q(120), h) /\ Lt(h, Q(180)) THEN <<Q(0), c, x>>
    ELSE IF Le(Q(180), h) /\ Lt(h, Q(240)) THEN <<Q(0), x, c>>
    ELSE IF Le(Q(240), h) /\ Lt(h, Q(300)) THEN <<x, Q(0), c>>
    ELSE IF Le(Q(300), h) /\ Lt(h, Q(360)) THEN <<c, Q(0), x>>
    ELSE <<Q(0), Q(0), Q(0)>>

\* the packing without the (1 << 24) guard digit and its slice(1)
PackHex_noPad(r, g, b) ==
    LET n == Add(Add(Shl(r, 16), Shl(g, 8)), b)
    IN  <<"#">> \o toUpperCase(toString16(n))

\* "#" + ((1 << 24) + (r << 16) + (g << 8) + b).toString(16).slice(1).toUpperCase()
PackHex(r, g, b) ==
    LET n == Add(Add(Add(Shl(Q(1), 24), Shl(r, 16)), Shl(g, 8)), b)
    IN  <<"#">> \o toUpperCase(Slice1(toString16(n)))

hslToHex(h, s0, l0) ==
    LET s == Div(s0, Q(100))
        l == Div(l0, Q(100))
        c == Mul(Sub(Q(1), MathAbs(Sub(Mul(Q(2), l), Q(1)))), s)
        x == Mul(c, Sub(Q(1), MathAbs(Sub(Rem(Div(h, Q(60)), Q(2)), Q(1)))))
        m == Sub(l, Div(c, Q(2)))
        rgb == Sector(h, c, x)
        r == MathRound(Mul(Add(rgb[1], m), Q(255)))
        g == MathRound(Mul(Add(rgb[2], m), Q(255)))
        b == MathRound(Mul(Add(rgb[3], m), Q(255)))
    IN  PackHex(r, g, b)

\* lightenHexColor passing newL, not newS, to hslToHex
lightenHexColor_newL(hexColor, percent) ==
    LET res == hexToHsl(hexColor)
    IN  IF ~res.ok THEN res
        ELSE LET h == res.val[1]
                 s == res.val[2]
                 l == res.val[3]
                 newL == MathMin(Q(100), Add(l, percent))
             IN  Return(hslToHex(h, s, newL))

lightenHexColor(hexColor, percent) ==
    LET res == hexToHsl(hexColor)
    IN  IF ~res.ok THEN res
        ELSE LET h == res.val[1]
                 s == res.val[2]
                 l == res.val[3]
                 newL == MathMin(Q(100), Add(l, percent))
                 newS == Q(90)
             IN  Return(hslToHex(h, s, newS))

-----------------------------------------------------------------------------
(* Callers of the colour functions *)

\* longest string body drawn over BodyAlphabet
MaxLen == 6

\* the channel values 0..255 are sampled at NumLevels + 1 evenly spaced levels
NumLevels == 5

BodyAlphabet == {"0", "F", "g"}

Strings(n) == UNION {[1..k -> BodyAlphabet] : k \in 0..n}

\* strings over the alphabet behind zero, one or two marker characters
TextInputs ==
    {pre \o body : pre \in {<<>>, <<"#">>, <<"#", "#">>}, body \in Strings(MaxLen)}

\* the levels, the channels of the default theme colour #0f699d and of the
\* README's #3498db
Channels ==
    {(i * 255) \div NumLevels : i \in 0..NumLevels}
        \cup {15, 105, 157} \cup {52, 152, 219}

Hex2(n) == <<HexDigits[(n \div 16) + 1], HexDigits[(n % 16) + 1]>>

\* "#rrggbb" and "RRGGBB" for every sampled channel triple
ColourInputs ==
    LET Body(r, g, b) == Hex2(r) \o Hex2(g) \o Hex2(b)
    IN  {<<"#">> \o Body(r, g, b) : r \in Channels, g \in Channels, b \in Channels}
        \cup {toUpperCase(Body(r, g, b)) :
                 r \in Channels, g \in Channels, b \in Channels}

HexInputs == TextInputs \cup ColourInputs

Hues == {Q(h) : h \in {-90, -1, 0, 59, 60, 119, 120, 180, 200, 240, 300,
                       359, 360, 720}}

Percentages == {Q(p) : p \in {-20, 0, 1, 25, 50, 75, 99, 100, 150}}

Percents == {Q(0), Q(20), <<463, 10>>, Q(100)}

NoCall == <<>>

NoResult == Return(<<>>)

\* a caller about to call one of the three functions with arguments of its
\* choice
ColorInit ==
    /\ \/ op = "hexToHsl" /\ arg \in HexInputs
       \/ op = "hslToHex" /\ arg \in Hues \X Percentages \X Percentages
       \/ op = "lightenHexColor" /\ arg \in HexInputs \X Percents
    /\ called = FALSE
    /\ ret = NoResult
    /\ prev = NoCall
    /\ again = FALSE

\* hexToHsl(hex)
CallHexToHsl ==
    /\ op = "hexToHsl" /\ ~called
    /\ called' = TRUE
    /\ ret' = hexToHsl(arg)
    /\ UNCHANGED <<op, arg, prev, again, style, recVars>>

\* hslToHex(h, s, l)
CallHslToHex ==
    /\ op = "hslToHex" /\ ~called
    /\ called' = TRUE
    /\ ret' = Return(hslToHex(arg[1], arg[2], arg[3]))
    /\ UNCHANGED <<op, arg, prev, again, style, recVars>>

\* const [h, s, l] = hexToHsl(hex), to be passed to hslToHex(h, s, l)
PassOnHsl ==
    /\ op = "hexToHsl" /\ called /\ ret.ok
    /\ op' = "hslToHex"
    /\ arg' = ret.val
    /\ called' = FALSE
    /\ ret' = NoResult
    /\ prev' = <<arg>>
    /\ UNCHANGED <<again, style, recVars>>

\* lightenHexColor(hexColor, percent)
CallLighten ==
    /\ op = "lightenHexColor" /\ ~called
    /\ called' = TRUE
    /\ ret' = lightenHexColor(arg[1], arg[2])
    /\ UNCHANGED <<op, arg, prev, again, style, recVars>>

-----------------------------------------------------------------------------
(* changetheme *)

\* the value of a parameter that was not passed
Undefined == <<"undefined">>

DefaultThemeColor == <<"#", "0", "f", "6", "9", "9", "d">>

StyleProps == {"--primary-color", "--accent-color", "--secondary-color"}

\* what the page's style sheet may have set a property to before any call
StyleValues == {<<>>, <<"#", "f", "8", "f", "8", "f", "8">>}

\* longest string body passed to changetheme
MaxThemeLen == 3

ThemeAlphabet == {"F", "g"}

\* strings over the alphabet with and without the marker, and some colours
ThemeInputs ==
    {Undefined, <<>>}
        \cup {pre \o body : pre \in {<<>>, <<"#">>},
                            body \in UNION {[1..k -> ThemeAlphabet] :
                                               k \in 0..MaxThemeLen}}
        \cup {<<"#", "0", "F", "6", "9", "9", "D">>,
              <<"#", "0", "f", "6", "9", "9", "d">>,
              <<"#", "3", "4", "9", "8", "d", "b">>,
              <<"0", "0", "0", "0", "0", "0">>,
              <<"#", "#", "0", "0", "0", "0", "0", "0">>}

\* the default taken from the documented secondary colour
ThemeColor_secondary(themecolor) ==
    IF themecolor = Undefined \/ themecolor = <<>>
    THEN <<"#", "f", "8", "f", "8", "f", "8">>
    ELSE themecolor

\* themecolor || "#0f699d"
ThemeColor(themecolor) ==
    IF themecolor = Undefined \/ themecolor = <<>>
    THEN DefaultThemeColor
    ELSE themecolor

\* style.setProperty(name, value)
SetProperty(st, name, value) == [st EXCEPT ![name] = value]

\* the end of changetheme: the accent is written unless lightenHexColor threw
WriteAccent(style1, accentcolor) ==
    IF accentcolor.ok
    THEN [style |-> SetProperty(style1, "--accent-color", accentcolor.val),
          ret |-> Return(Undefined)]
    ELSE [style |-> style1, ret |-> accentcolor]

\* changetheme deriving the accent from the primary colour the style held
\* before the call
ApplyTheme_fromOld(st, themecolor) ==
    WriteAccent(SetProperty(st, "--primary-color", ThemeColor(themecolor)),
                lightenHexColor(IF st["--primary-color"] = <<>>
                                THEN ThemeColor(themecolor)
                                ELSE st["--primary-color"], <<463, 10>>))

\* the body of changetheme on style st: the style it leaves and its completion
ApplyTheme(st, themecolor) ==
    WriteAccent(SetProperty(st, "--primary-color", ThemeColor(themecolor)),
                lightenHexColor(ThemeColor(themecolor), <<463, 10>>))

changetheme(themecolor) ==
    /\ op' = "changetheme"
    /\ arg' = themecolor
    /\ called' = TRUE
    /\ prev' = NoCall
    /\ again' = (op = "changetheme" /\ arg = themecolor)
    /\ style' = ApplyTheme(style, themecolor).style
    /\ ret' = ApplyTheme(style, themecolor).ret
    /\ UNCHANGED recVars

-----------------------------------------------------------------------------
(* AppRec *)

\* most getRecords calls one read issues before the platform stops
\* returning a record_cursor
MaxPages == 2

SuccessCode == 3000

\* the response codes the platform answers with: success and "no data"
Codes == {SuccessCode, 3100}

Cursors == {"c1", "c2"}

\* the data arrays of a response
PageData ==
    {<<>>, <<[ID |-> "r1"]>>, <<[ID |-> "r2", id |-> "x2"]>>,
     <<[name |-> "n3"], [ID |-> "r1"]>>}

\* what awaiting a platform call can produce: a rejection, a null response,
\* or an object with a code and optionally data and a record_cursor
Responses(withCursor) ==
    {[kind |-> "reject"], [kind |-> "null"]}
        \cup {[kind |-> "object", code |-> c] : c \in Codes}
        \cup {[kind |-> "object", code |-> c, data |-> d] :
                 c \in Codes, d \in PageData}
        \cup IF withCursor
             THEN {[kind |-> "object", code |-> c, data |-> d,
                    record_cursor |-> k] :
                      c \in Codes, d \in PageData, k \in Cursors}
             ELSE {}

\* _validateResponse(response, action) for an action other than "Count"
validateResponse(response) ==
    IF response.kind # "object"
    THEN Throw("returned an invalid response")
    ELSE IF response.code # 0 /\ response.code # SuccessCode
    THEN Return(<<>>)
    ELSE IF "data" \in DOMAIN response
    THEN Return(response.data)
    ELSE Return(<<>>)

\* _normalize(record) for a record that is an object
normalize(record) ==
    [f \in DOMAIN record \cup {"id"} |->
        IF f \in DOMAIN record THEN record[f]
        ELSE IF "ID" \in DOMAIN record /\ record.ID # "" THEN record.ID
        ELSE "undefined"]

NormalizeAll(recs) == [i \in 1..Len(recs) |-> normalize(recs[i])]

NoOutcome == [of |-> "none", kind |-> "none", val |-> <<>>]

\* the fields the constructor sets, but for this.form
RecFresh ==
    /\ records = <<>>
    /\ pc = "idle"
    /\ cursor = "null"
    /\ config = [report_name |-> "MyReport"]
    /\ page = 0
    /\ failed = FALSE
    /\ stale = FALSE
    /\ fetched = <<>>
    /\ outcome = NoOutcome

\* new AppRec({ form: "MyForm", report: "MyReport" })
RecInit == RecFresh /\ form = "MyForm"

\* the record_cursor a request is sent with
SentCursor(cfg) ==
    IF "record_cursor" \in DOMAIN cfg THEN cfg.record_cursor ELSE "none"

\* config without its record_cursor
DeleteCursor(cfg) == [f \in DOMAIN cfg \ {"record_cursor"} |-> cfg[f]]

\* config with record_cursor set to k
WithCursor(cfg, k) ==
    [f \in DOMAIN cfg \cup {"record_cursor"} |->
        IF f = "record_cursor" THEN k ELSE cfg[f]]

\* read without its this.clear()
ReadStart_noClear(field_config, fields) ==
    /\ pc = "idle"
    /\ records' = records
    /\ cursor' = "null"
    /\ config' =
          LET base == [report_name |-> "MyReport", criteria |-> "",
                       field_config |-> field_config, max_records |-> 1000]
          IN  DeleteCursor(
                  IF Len(fields) > 0 /\ field_config = "custom"
                  THEN [f \in DOMAIN base \cup {"fields"} |->
                           IF f = "fields" THEN fields ELSE base[f]]
                  ELSE base)
    /\ pc' = "getRecords"
    /\ page' = 1
    /\ failed' = FALSE
    /\ stale' = (records # <<>>)
    /\ fetched' = <<>>
    /\ outcome' = [of |-> "read", kind |-> "pending", val |-> <<>>]
    /\ UNCHANGED <<colorVars, style, form>>

\* read(field_config, fields) up to its first await
ReadStart(field_config, fields) ==
    /\ pc = "idle"
    /\ records' = <<>>
    /\ cursor' = "null"
    /\ config' =
          LET base == [report_name |-> "MyReport", criteria |-> "",
                       field_config |-> field_config, max_records |-> 1000]
          IN  DeleteCursor(
                  IF Len(fields) > 0 /\ field_config = "custom"
                  THEN [f \in DOMAIN base \cup {"fields"} |->
                           IF f = "fields" THEN fields ELSE base[f]]
                  ELSE base)
    /\ pc' = "getRecords"
    /\ page' = 1
    /\ failed' = FALSE
    /\ stale' = (records # <<>>)
    /\ fetched' = <<>>
    /\ outcome' = [of |-> "read", kind |-> "pending", val |-> <<>>]
    /\ UNCHANGED <<colorVars, style, form>>

\* read from the completion of getRecords to the next await or the return
ReadResume(response) ==
    /\ pc = "getRecords"
    /\ fetched' = Append(fetched, [sent |-> SentCursor(config),
                                   response |-> response])
    /\ IF response.kind # "object" \/ response.code # SuccessCode
       THEN \* the throw, or the rejection, lands in the catch: return []
            /\ failed' = TRUE
            /\ outcome' = [of |-> "read", kind |-> "resolved", val |-> <<>>]
            /\ pc' = "idle"
            /\ UNCHANGED <<records, cursor, config, page>>
       ELSE LET recs == validateResponse(response).val
                all == records \o NormalizeAll(recs)
                hasMore == "record_cursor" \in DOMAIN response
                               /\ response.record_cursor # ""
            IN  /\ records' = all
                /\ failed' = FALSE
                /\ IF hasMore
                   THEN /\ cursor' = response.record_cursor
                        /\ config' = WithCursor(config, response.record_cursor)
                        /\ pc' = "getRecords"
                        /\ page' = page + 1
                        /\ outcome' = outcome
                   ELSE /\ cursor' = "undefined"
                        /\ pc' = "idle"
                        /\ outcome' = [of |-> "read", kind |-> "resolved",
                                        val |-> all]
                        /\ UNCHANGED <<config, page>>
    /\ UNCHANGED <<colorVars, style, form, stale>>

\* the recordId arguments: an id and the empty string the check refuses
RecordIds == {"r1", ""}

Rejected(method) == [of |-> method, kind |-> "rejected", val |-> <<>>]

Pending(method) == [of |-> method, kind |-> "pending", val |-> <<>>]

\* the completion of deleteById once deleteRecordById has answered: the
\* rejection and the throw of _validateResponse are rethrown by the catch
DeleteCompletion(response) ==
    IF response.kind = "reject" \/ ~validateResponse(response).ok
    THEN Rejected("deleteById")
    ELSE [of |-> "deleteById", kind |-> "resolved", val |-> TRUE]

\* deleteById(recordId) up to its await; sdk: window.ZOHO.CREATOR.UTIL is set
DeleteStart(recordId, sdk) ==
    /\ pc = "idle"
    /\ fetched' = <<>>
    /\ IF ~sdk \/ form = "" \/ recordId = ""
       THEN /\ outcome' = Rejected("deleteById")
            /\ pc' = "idle"
            /\ config' = config
       ELSE /\ outcome' = Pending("deleteById")
            /\ pc' = "deleteRecordById"
            /\ config' = [report_name |-> "MyReport", id |-> recordId]
    /\ UNCHANGED <<colorVars, style, form, records, cursor, page, failed, stale>>

\* deleteById from the completion of deleteRecordById on
DeleteResume(response) ==
    /\ pc = "deleteRecordById"
    /\ fetched' = <<[sent |-> "none", response |-> response]>>
    /\ outcome' = DeleteCompletion(response)
    /\ pc' = "idle"
    /\ UNCHANGED <<colorVars, style, form, records, cursor, config, page, failed,
                   stale>>

\* most records this.records holds when create is called
MaxRecords == 2

\* the data objects passed to create
CreateData == {[name |-> "n1"]}

\* what awaiting addRecords can produce; the data of the answer is the
\* token "new1"
CreateResponses ==
    {[kind |-> "reject"], [kind |-> "null"]}
        \cup {[kind |-> "object", code |-> c] : c \in Codes}
        \cup {[kind |-> "object", code |-> c, data |-> "new1"] : c \in Codes}

\* newRecord.id = records: the data of the answer, or the empty array
\* _validateResponse returns in its place, written "[]"
CreatedId(response) ==
    IF response.code = SuccessCode /\ "data" \in DOMAIN response
    THEN validateResponse(response).val
    ELSE "[]"

\* data with its id field set
WithId(data, id) ==
    [f \in DOMAIN data \cup {"id"} |-> IF f = "id" THEN id ELSE data[f]]

\* create(data) up to its await
CreateStart(data, sdk) ==
    /\ pc = "idle"
    /\ Len(records) < MaxRecords
    /\ fetched' = <<>>
    /\ IF ~sdk \/ form = ""
       THEN /\ outcome' = Rejected("create")
            /\ pc' = "idle"
            /\ config' = config
       ELSE /\ outcome' = Pending("create")
            /\ pc' = "addRecords"
            /\ config' = [form_name |-> form, payload |-> [data |-> data]]
    /\ UNCHANGED <<colorVars, style, form, records, cursor, page, failed, stale>>

\* create from the completion of addRecords on
CreateResume(response) ==
    /\ pc = "addRecords"
    /\ fetched' = <<[sent |-> "none", response |-> response]>>
    /\ pc' = "idle"
    /\ IF response.kind = "reject" \/ ~validateResponse(response).ok
       THEN \* the catch alerts and rethrows
            /\ outcome' = Rejected("create")
            /\ records' = records
       ELSE /\ records' = Append(records, normalize(
                   WithId(config.payload.data, CreatedId(response))))
            /\ outcome' = [of |-> "create", kind |-> "resolved",
                           val |-> WithId(config.payload.data,
                                          CreatedId(response))]
    /\ UNCHANGED <<colorVars, style, form, cursor, config, page, failed, stale>>

-----------------------------------------------------------------------------
(* Specifications *)

StyleUnset == [p \in StyleProps |-> <<>>]

\* no call of a colour function or of changetheme yet
NoColorCall ==
    /\ op = "none"
    /\ arg = <<>>
    /\ called = FALSE
    /\ ret = NoResult
    /\ prev = NoCall
    /\ again = FALSE

\* callers of the three colour functions
InitColor == ColorInit /\ style = StyleUnset /\ RecInit

NextColor ==
    \/ CallHexToHsl
    \/ CallHslToHex
    \/ PassOnHsl
    \/ CallLighten

SpecColor == InitColor /\ [][NextColor]_vars

\* callers of changetheme on a page with any prior style
InitTheme == NoColorCall /\ style \in [StyleProps -> StyleValues] /\ RecInit

NextTheme == \E x \in ThemeInputs : changetheme(x)

SpecTheme == InitTheme /\ [][NextTheme]_vars

\* one AppRec instance, one read at a time
InitRec ==
    NoColorCall /\ style = StyleUnset /\ RecFresh /\ form \in {"MyForm", ""}

NextRec ==
    \/ \E fc \in {"all", "custom"}, fs \in {<<>>, <<"Name">>} : ReadStart(fc, fs)
    \/ \E r \in Responses(page < MaxPages) : ReadResume(r)
    \/ \E id \in RecordIds, sdk \in BOOLEAN : DeleteStart(id, sdk)
    \/ \E r \in Responses(FALSE) : DeleteResume(r)
    \/ \E d \in CreateData, sdk \in BOOLEAN : CreateStart(d, sdk)
    \/ \E r \in CreateResponses : CreateResume(r)

SpecRec == InitRec /\ [][NextRec]_vars


-----------------------------------------------------------------------------
(* Properties *)

\* a string without one optional leading marker
Stripped(str) ==
    IF Len(str) > 0 /\ Head(str) = "#" THEN SubSeq(str, 2, Len(str)) ELSE str

HexChars ==
    {"0", "1", "2", "3", "4", "5", "6", "7", "8", "9",
     "a", "b", "c", "d", "e", "f", "A", "B", "C", "D", "E", "F"}

UpperHexChars ==
    {"0", "1", "2", "3", "4", "5", "6", "7", "8", "9",
     "A", "B", "C", "D", "E", "F"}

IsString(v) == v # Undefined

\* a 3- or 6-digit hex colour with an optional marker
ValidHexColour(str) ==
    /\ Len(Stripped(str)) \in {3, 6}
    /\ \A i \in 1..Len(Stripped(str)) : Stripped(str)[i] \in HexChars

ValidHex6(str) == ValidHexColour(str) /\ Len(Stripped(str)) = 6

\* the value of the two-digit hexadecimal numeral <<a, b>>
PairValue(a, b) ==
    LET V(ch) == CHOOSE v \in 0..15 :
                     ch = HexDigits[v + 1] \/ ch = UpperDigits[v + 1]
    IN  16 * V(a) + V(b)

\* the red, green and blue channels of six hexadecimal digits
ChannelsOf(digits) ==
    [i \in 1..3 |-> PairValue(digits[2 * i - 1], digits[2 * i])]

\* "#" followed by six upper-case hexadecimal digits
WellFormed(str) ==
    /\ Len(str) = 7
    /\ str[1] = "#"
    /\ \A i \in 2..7 : str[i] \in UpperHexChars

InRange(a) == Le(Q(0), a) /\ Le(a, Q(100))

PrimaryProp == "--primary-color"
AccentProp == "--accent-color"

\* C1: for every valid 6-digit hex colour, hslToHex applied to the triple
\* returned by hexToHsl gives a well-formed colour whose red, green and blue
\* channels each differ from the original channel by at most 1.
C1_RoundTrip ==
    (op = "hslToHex" /\ called /\ prev # NoCall /\ ValidHex6(prev[1])) =>
        /\ WellFormed(ret.val)
        /\ \A i \in 1..3 :
              LET d == ChannelsOf(Tail(ret.val))[i]
                          - ChannelsOf(Stripped(prev[1]))[i]
              IN  -1 <= d /\ d <= 1

\* round trip of the README's #3498db
C1_Witness ==
    /\ op = "hslToHex" /\ called
    /\ prev = <<(<<"#", "3", "4", "9", "8", "d", "b">>)>>
    /\ ret.val = <<"#", "3", "4", "9", "8", "D", "B">>

C3_ThrowsOnInvalid ==
    (op = "hexToHsl" /\ called /\ ~ValidHexColour(arg)) => ~ret.ok

C5_LightenByPercent ==
    (op = "lightenHexColor" /\ called /\ ValidHexColour(arg[1])) =>
        LET hsl == hexToHsl(arg[1]).val
        IN  /\ ret.ok
            /\ ret.val = hslToHex(hsl[1], hsl[2],
                                  MathMin(Q(100), Add(hsl[3], arg[2])))

C7_OutputFormat ==
    /\ (op = "hslToHex" /\ called /\ InRange(arg[2]) /\ InRange(arg[3])) =>
           WellFormed(ret.val)
    /\ (op = "lightenHexColor" /\ called /\ ValidHexColour(arg[1])) =>
           ret.ok /\ WellFormed(ret.val)

\* a hue outside the six sectors and a dark colour that needs the zero padding
C7_Witness ==
    /\ op = "hslToHex" /\ called
    /\ arg = <<Q(720), Q(0), Q(1)>>
    /\ ret.val = <<"#", "0", "3", "0", "3", "0", "3">>

\* the accent colour changetheme is to write for a valid primary colour
AccentOf(color) == lightenHexColor(color, <<463, 10>>).val

\* C8: changetheme with no argument or an empty one writes "#0F699D" to the
\* primary property and lightenHexColor("#0F699D", 46.3) to the accent property;
\* with a valid colour it writes the colour verbatim and its lightened colour.
C8_ThemeWrites ==
    (op = "changetheme" /\ called) =>
        /\ (arg = Undefined \/ arg = <<>>) =>
              /\ style[PrimaryProp] = <<"#", "0", "F", "6", "9", "9", "D">>
              /\ style[AccentProp] = AccentOf(<<"#", "0", "F", "6", "9", "9", "D">>)
        /\ (IsString(arg) /\ arg # <<>> /\ ValidHexColour(arg)) =>
              /\ style[PrimaryProp] = arg
              /\ style[AccentProp] = AccentOf(arg)

\* C8 as amended: the default written is the lower-case "#0f699d".
C8_ThemeWritesAmended ==
    (op = "changetheme" /\ called) =>
        /\ (arg = Undefined \/ arg = <<>>) =>
              /\ style[PrimaryProp] = <<"#", "0", "f", "6", "9", "9", "d">>
              /\ style[AccentProp] = <<"#", "D", "0", "E", "B", "F", "B">>
              /\ style[AccentProp] = AccentOf(<<"#", "0", "F", "6", "9", "9", "D">>)
        /\ (IsString(arg) /\ arg # <<>> /\ ValidHexColour(arg)) =>
              /\ style[PrimaryProp] = arg
              /\ style[AccentProp] = AccentOf(arg)

\* changetheme() on a page whose style sheet had set all three properties
C8_Witness ==
    /\ op = "changetheme" /\ called /\ arg = Undefined
    /\ style[PrimaryProp] = DefaultThemeColor
    /\ style[AccentProp] = <<"#", "D", "0", "E", "B", "F", "B">>
    /\ style["--secondary-color"] # <<>>

ValidThemeArg(x) ==
    x = Undefined \/ x = <<>> \/ ValidHexColour(x)

C10_ReadRejectsOnFailure ==
    (pc = "idle" /\ outcome.of = "read" /\ failed) => outcome.kind = "rejected"

\* C11: deleteById resolves to true only if the deletion succeeded: when the
\* deleteRecordById response carries a code other than 3000, it throws.
C11_DeleteThrowsOnErrorCode ==
    (pc = "idle" /\ outcome.of = "deleteById" /\ Len(fetched) = 1
        /\ fetched[1].response.kind = "object"
        /\ fetched[1].response.code # SuccessCode)
        => outcome.kind = "rejected"

\* the data array of a page answered with code 3000
DataOf(response) ==
    IF "data" \in DOMAIN response THEN response.data ELSE <<>>

\* the cursor a page answers with, "none" when it has none
CursorOf(response) ==
    IF "record_cursor" \in DOMAIN response
    THEN response.record_cursor
    ELSE "none"

\* the normalized records of the first n pages fetched, in fetch order
RECURSIVE PagesUpTo(_)
PagesUpTo(n) ==
    IF n = 0 THEN <<>>
    ELSE PagesUpTo(n - 1) \o NormalizeAll(DataOf(fetched[n].response))

\* each page but the first is requested with the cursor the page before
\* answered with, and the first with none
CursorChain ==
    \A i \in 1..Len(fetched) :
        fetched[i].sent =
            IF i = 1 THEN "none" ELSE CursorOf(fetched[i - 1].response)

\* every getRecords call of this read was answered with code 3000
AllPagesOk ==
    \A i \in 1..Len(fetched) :
        /\ fetched[i].response.kind = "object"
        /\ fetched[i].response.code = SuccessCode

\* C12: after a read whose pages all answered with code 3000, this.records is
\* exactly the normalized records of that read's pages in fetch order, whatever
\* it held before; every page after the first was requested with the cursor of
\* the page before; the read stopped at the first page without a cursor; and
\* the value returned is that array.
C12_ReadReplacesRecords ==
    /\ (pc = "idle" /\ outcome.of = "read" /\ AllPagesOk) =>
           /\ outcome.kind = "resolved"
           /\ Len(fetched) >= 1
           /\ records = PagesUpTo(Len(fetched))
           /\ outcome.val = records
           /\ CursorChain
           /\ \A i \in 1..Len(fetched) :
                 (CursorOf(fetched[i].response) = "none") <=> (i = Len(fetched))
    /\ (pc = "getRecords" /\ AllPagesOk) =>
           /\ records = PagesUpTo(Len(fetched))
           /\ CursorChain
           /\ \A i \in 1..Len(fetched) : CursorOf(fetched[i].response) # "none"
           /\ SentCursor(config) =
                 IF fetched = <<>> THEN "none"
                 ELSE CursorOf(fetched[Len(fetched)].response)

\* a read of two pages, begun while this.records held a created record
C12_Witness ==
    /\ pc = "idle" /\ outcome.of = "read" /\ AllPagesOk /\ stale
    /\ Len(fetched) = 2
    /\ fetched[2].sent = "c1"
    /\ records = <<[ID |-> "r1", id |-> "r1"], [ID |-> "r2", id |-> "x2"]>>

=============================================================================
